---- MODULE Spec2Model ----
(***************************************************************************)
(* Model of the eliza terminal client (src/main.go): the bubbletea model   *)
(* struct, its Update transition function, the two remote-call commands    *)
(* (introduce, say) that run on worker goroutines, and the View renderer.  *)
(*                                                                         *)
(* The event loop delivers one message at a time to Update.  A command     *)
(* returned by Update runs on its own goroutine, step by step, and its     *)
(* returned message is delivered back to Update.                           *)
(***************************************************************************)
EXTENDS Integers, Sequences, FiniteSets, TLC

\* ---------------------------------------------------------------- bounds
\* Total number of Enter presses (= commands issued) explored.
MaxCalls == 3

\* ------------------------------------------------------------ value sets
\* Values the text input can hold.
Texts == {"", "a"}
\* Sentences the remote service answers with on the Converse channel.
Sentences == {"s1", "s2"}
\* The sentence sequences the Introduce stream can have yielded so far.
IntroLines == {<<>>, <<"s1">>}
\* Errors a remote call can fail with.
Errs == {"e1"}
NIL == "nil"
Placeholder == "Joseph Weizenbaum"

\* The zero-valued message slot of a command that has not returned yet.
NoMsg == [type |-> "none", err |-> NIL, lines |-> <<>>, sentence |-> ""]

\* type errMsg error
errMsg(e) == [type |-> "errMsg", err |-> e, lines |-> <<>>, sentence |-> ""]

\* type introductionMsg []string
introductionMsg(ls) == [type |-> "introductionMsg", err |-> NIL, lines |-> ls, sentence |-> ""]

\* type sayMsg string
sayMsg(s) == [type |-> "sayMsg", err |-> NIL, lines |-> <<>>, sentence |-> s]

\* ----------------------------------------------------------------- state
VARIABLES
    hasIntroduced,        \* model.hasIntroduced
    waitingForResponse,   \* model.waitingForResponse
    conversation,         \* model.conversation of the program's model (0 = nil)
    name,                 \* model.name
    introductionReceived, \* model.introductionReceived
    said,                 \* model.said
    sayResponses,         \* model.sayResponses
    textInput,            \* model.textInput: [value, placeholder]
    err,                  \* model.err (NIL = nil)
    cmds,                 \* the commands issued so far, in issue order
    quitPending,          \* a tea.Quit command has been returned
    running,              \* p.Run() has not returned
    responseFor           \* for each sayResponses[i], the command it came from

vars == <<hasIntroduced, waitingForResponse, conversation, name,
          introductionReceived, said, sayResponses, textInput, err,
          cmds, quitPending, running, responseFor>>

modelVars == <<hasIntroduced, waitingForResponse, conversation, name,
               introductionReceived, said, sayResponses, textInput, err>>

\* The fields of the session other than the widgets.
sessionVars == <<hasIntroduced, waitingForResponse, conversation, name,
                 introductionReceived, said, sayResponses, err>>

\* initialModel, but with the waiting flag set from the start.
initialModel_waiting ==
    /\ hasIntroduced = FALSE
    /\ waitingForResponse = TRUE
    /\ conversation = 0
    /\ name = ""
    /\ introductionReceived = <<>>
    /\ said = <<>>
    /\ sayResponses = <<>>
    /\ textInput = [value |-> "", placeholder |-> Placeholder]
    /\ err = NIL

\* func initialModel(client) model
initialModel ==
    /\ hasIntroduced = FALSE
    /\ waitingForResponse = FALSE
    /\ conversation = 0
    /\ name = ""
    /\ introductionReceived = <<>>
    /\ said = <<>>
    /\ sayResponses = <<>>
    /\ textInput = [value |-> "", placeholder |-> Placeholder]
    /\ err = NIL

\* func main(): tea.NewProgram(initialModel(...)).Run()
Init ==
    /\ initialModel
    /\ cmds = <<>>
    /\ quitPending = FALSE
    /\ running = TRUE
    /\ responseFor = <<>>

\* ------------------------------------------------------ command closures
\* func (m model) introduce(name string) tea.Cmd: the closure, not yet run.
\* The value receiver m is a copy of the model taken when the command is made.
introduce(text) ==
    [kind |-> "introduce", text |-> text, idx |-> 0, pc |-> "call",
     conversation |-> conversation, lines |-> <<>>, streamErr |-> NIL,
     slept |-> FALSE, msg |-> NoMsg]

\* func (m model) say(text string) tea.Cmd: the closure, not yet run.
\* m.conversation is the field of the closure's own copy of the model; idx is
\* the place of text in said.
say(text) ==
    [kind |-> "say", text |-> text, idx |-> Len(said) + 1, pc |-> "converse",
     conversation |-> conversation, lines |-> <<>>, streamErr |-> NIL,
     slept |-> FALSE, msg |-> NoMsg]

\* ---------------------------------------------------------- Update: keys
\* UpdateKeyEnter, but without storing the submitted name (the name is not
\* kept in the model).
UpdateKeyEnter_noName ==
    /\ running
    /\ Len(cmds) < MaxCalls
    /\ waitingForResponse' = TRUE
    /\ IF ~hasIntroduced
         THEN /\ textInput' = [value |-> "", placeholder |-> ""]
              /\ said' = said
              /\ cmds' = Append(cmds, introduce(textInput.value))
         ELSE /\ said' = Append(said, textInput.value)
              /\ textInput' = [textInput EXCEPT !.value = ""]
              /\ cmds' = Append(cmds, say(textInput.value))
    /\ UNCHANGED <<hasIntroduced, conversation, name, introductionReceived,
                   sayResponses, err, quitPending, running, responseFor>>

\* UpdateKeyEnter, but without m.textInput.Reset(): the submitted text stays in
\* the input widget.
UpdateKeyEnter_keepsInput ==
    /\ running
    /\ Len(cmds) < MaxCalls
    /\ waitingForResponse' = TRUE
    /\ IF ~hasIntroduced
         THEN /\ name' = textInput.value
              /\ textInput' = [textInput EXCEPT !.placeholder = ""]
              /\ said' = said
              /\ cmds' = Append(cmds, introduce(textInput.value))
         ELSE /\ said' = Append(said, textInput.value)
              /\ textInput' = textInput
              /\ name' = name
              /\ cmds' = Append(cmds, say(textInput.value))
    /\ UNCHANGED <<hasIntroduced, conversation, introductionReceived, sayResponses,
                   err, quitPending, running, responseFor>>

\* case tea.KeyEnter
UpdateKeyEnter ==
    /\ running
    /\ Len(cmds) < MaxCalls
    /\ waitingForResponse' = TRUE
    /\ IF ~hasIntroduced
         THEN /\ name' = textInput.value
              /\ textInput' = [value |-> "", placeholder |-> ""]
              /\ said' = said
              /\ cmds' = Append(cmds, introduce(textInput.value))
         ELSE /\ said' = Append(said, textInput.value)
              /\ textInput' = [textInput EXCEPT !.value = ""]
              /\ name' = name
              /\ cmds' = Append(cmds, say(textInput.value))
    /\ UNCHANGED <<hasIntroduced, conversation, introductionReceived, sayResponses,
                   err, quitPending, running, responseFor>>

\* UpdateKeyQuit, but also ending the wait for a response.
UpdateKeyQuit_stopsWaiting ==
    /\ running
    /\ quitPending' = TRUE
    /\ waitingForResponse' = FALSE
    /\ UNCHANGED <<hasIntroduced, conversation, name, introductionReceived, said,
                   sayResponses, textInput, err, cmds, running, responseFor>>

\* case tea.KeyCtrlC, tea.KeyEsc: return m, tea.Quit
UpdateKeyQuit ==
    /\ running
    /\ quitPending' = TRUE
    /\ UNCHANGED <<modelVars, cmds, running, responseFor>>

\* UpdateKeyDefault, but a keystroke also ends the wait for a response.
UpdateKeyDefault_stopsWaiting ==
    /\ running
    /\ \E t \in Texts \ {textInput.value} :
         textInput' = [textInput EXCEPT !.value = t]
    /\ waitingForResponse' = FALSE
    /\ UNCHANGED <<hasIntroduced, conversation, name, introductionReceived, said,
                   sayResponses, err, cmds, quitPending, running, responseFor>>

\* default (any other key): m.textInput, cmd = m.textInput.Update(msg).
\* The widget's value becomes another text.
UpdateKeyDefault ==
    /\ running
    /\ \E t \in Texts \ {textInput.value} :
         textInput' = [textInput EXCEPT !.value = t]
    /\ UNCHANGED <<sessionVars, cmds, quitPending, running, responseFor>>

\* ----------------------------------------------- the introduce command
\* A command's closure runs on its own goroutine; Step(i, c) replaces the
\* i-th command's record by c and leaves the program's model alone.
Step(i, c) ==
    /\ cmds' = [cmds EXCEPT ![i] = c]
    /\ UNCHANGED <<modelVars, quitPending, running, responseFor>>

\* introduceResponse, err := m.client.Introduce(ctx, request); if err != nil
\* { return errMsg(err) }
IntroduceCall(i) ==
    /\ running
    /\ cmds[i].kind = "introduce" /\ cmds[i].pc = "call"
    /\ \/ \E e \in Errs :
            Step(i, [cmds[i] EXCEPT !.pc = "returned", !.msg = errMsg(e)])
       \/ Step(i, [cmds[i] EXCEPT !.pc = "receive"])

\* for introduceResponse.Receive() { introductionLines = append(...) }
\* return introductionMsg(introductionLines)
\* Receive returns false when the stream has ended, cleanly or with an error
\* (streamErr); the loop does not tell the two apart.
IntroduceReceive(i) ==
    /\ running
    /\ cmds[i].kind = "introduce" /\ cmds[i].pc = "receive"
    /\ \/ \E ls \in IntroLines :
            /\ Len(ls) = Len(cmds[i].lines) + 1
            /\ Step(i, [cmds[i] EXCEPT !.lines = ls])
       \/ \E e \in Errs \cup {NIL} :
            Step(i, [cmds[i] EXCEPT !.pc = "returned", !.streamErr = e,
                                    !.msg = introductionMsg(cmds[i].lines)])

\* ----------------------------------------------------- the say command
\* SayConverse, but every command gets one and the same channel from the
\* client instead of a channel of its own.
SayConverse_sameHandle(i) ==
    /\ running
    /\ cmds[i].kind = "say" /\ cmds[i].pc = "converse"
    /\ IF cmds[i].conversation = 0
         THEN Step(i, [cmds[i] EXCEPT !.pc = "send", !.conversation = 1])
         ELSE Step(i, [cmds[i] EXCEPT !.pc = "send"])

\* if m.conversation == nil { m.conversation = m.client.Converse(ctx) }
\* The assignment is to the closure's copy of the model; the new channel is
\* identified by the command that opened it.
SayConverse(i) ==
    /\ running
    /\ cmds[i].kind = "say" /\ cmds[i].pc = "converse"
    /\ IF cmds[i].conversation = 0
         THEN Step(i, [cmds[i] EXCEPT !.pc = "send", !.conversation = i])
         ELSE Step(i, [cmds[i] EXCEPT !.pc = "send"])

\* SaySend, but a failed Send is answered with an empty sayMsg instead of errMsg.
SaySend_errAsReply(i) ==
    /\ running
    /\ cmds[i].kind = "say" /\ cmds[i].pc = "send"
    /\ \/ Step(i, [cmds[i] EXCEPT !.pc = "returned", !.msg = sayMsg("")])
       \/ Step(i, [cmds[i] EXCEPT !.pc = "receive"])

\* if err := m.conversation.Send(...); err != nil { return errMsg(err) }
SaySend(i) ==
    /\ running
    /\ cmds[i].kind = "say" /\ cmds[i].pc = "send"
    /\ \/ \E e \in Errs :
            Step(i, [cmds[i] EXCEPT !.pc = "returned", !.msg = errMsg(e)])
       \/ Step(i, [cmds[i] EXCEPT !.pc = "receive"])

\* SayReceive, but returning the reply at once, without the pause.
SayReceive_noSleep(i) ==
    /\ running
    /\ cmds[i].kind = "say" /\ cmds[i].pc = "receive"
    /\ \/ \E e \in Errs :
            Step(i, [cmds[i] EXCEPT !.pc = "returned", !.msg = errMsg(e)])
       \/ \E s \in Sentences :
            Step(i, [cmds[i] EXCEPT !.pc = "returned", !.lines = <<s>>,
                                    !.msg = sayMsg(s)])

\* conversationResponse, err := m.conversation.Receive()
\* if err != nil { return errMsg(err) }
SayReceive(i) ==
    /\ running
    /\ cmds[i].kind = "say" /\ cmds[i].pc = "receive"
    /\ \/ \E e \in Errs :
            Step(i, [cmds[i] EXCEPT !.pc = "returned", !.msg = errMsg(e)])
       \/ \E s \in Sentences :
            Step(i, [cmds[i] EXCEPT !.pc = "sleep", !.lines = <<s>>])

\* time.Sleep(time.Second); return sayMsg(conversationResponse.Sentence)
SaySleep(i) ==
    /\ running
    /\ cmds[i].kind = "say" /\ cmds[i].pc = "sleep"
    /\ Step(i, [cmds[i] EXCEPT !.pc = "returned", !.slept = TRUE,
                               !.msg = sayMsg(cmds[i].lines[1])])

\* ------------------------------------------------ Update: call results
\* The event loop hands the message a command returned to Update; the
\* command's goroutine has ended (the record keeps which channel it opened).
Delivered(i) ==
    cmds' = [cmds EXCEPT ![i] = [kind |-> cmds[i].kind, text |-> "",
                                 idx |-> cmds[i].idx, pc |-> "delivered",
                                 conversation |-> cmds[i].conversation, lines |-> <<>>,
                                 streamErr |-> NIL, slept |-> FALSE, msg |-> NoMsg]]

\* UpdateErrMsg, but without the assignment m.err = msg.
UpdateErrMsg_noStore(i) ==
    /\ running
    /\ cmds[i].pc = "returned" /\ cmds[i].msg.type = "errMsg"
    /\ quitPending' = TRUE
    /\ Delivered(i)
    /\ UNCHANGED <<hasIntroduced, waitingForResponse, conversation, name,
                   introductionReceived, said, sayResponses, textInput, err,
                   running, responseFor>>

\* UpdateErrMsg, but returning no command (return m, nil).
UpdateErrMsg_noQuit(i) ==
    /\ running
    /\ cmds[i].pc = "returned" /\ cmds[i].msg.type = "errMsg"
    /\ err' = cmds[i].msg.err
    /\ Delivered(i)
    /\ UNCHANGED <<hasIntroduced, waitingForResponse, conversation, name,
                   introductionReceived, said, sayResponses, textInput,
                   quitPending, running, responseFor>>

\* UpdateErrMsg, but discarding the user line that was waiting for a reply.
UpdateErrMsg_dropLine(i) ==
    /\ running
    /\ cmds[i].pc = "returned" /\ cmds[i].msg.type = "errMsg"
    /\ err' = cmds[i].msg.err
    /\ said' = SubSeq(said, 1, Len(sayResponses))
    /\ quitPending' = TRUE
    /\ Delivered(i)
    /\ UNCHANGED <<hasIntroduced, waitingForResponse, conversation, name,
                   introductionReceived, sayResponses, textInput,
                   running, responseFor>>

\* case errMsg: m.err = msg; return m, tea.Quit
UpdateErrMsg(i) ==
    /\ running
    /\ cmds[i].pc = "returned" /\ cmds[i].msg.type = "errMsg"
    /\ err' = cmds[i].msg.err
    /\ quitPending' = TRUE
    /\ Delivered(i)
    /\ UNCHANGED <<hasIntroduced, waitingForResponse, conversation, name,
                   introductionReceived, said, sayResponses, textInput,
                   running, responseFor>>

\* UpdateIntroductionMsg, but leaving waitingForResponse as it was.
UpdateIntroductionMsg_stillWaiting(i) ==
    /\ running
    /\ cmds[i].pc = "returned" /\ cmds[i].msg.type = "introductionMsg"
    /\ hasIntroduced' = TRUE
    /\ introductionReceived' = cmds[i].msg.lines
    /\ Delivered(i)
    /\ UNCHANGED <<waitingForResponse, conversation, name, said, sayResponses,
                   textInput, err, quitPending, running, responseFor>>

\* case introductionMsg: m.hasIntroduced = true; m.waitingForResponse = false;
\* m.introductionReceived = msg; return m, nil
UpdateIntroductionMsg(i) ==
    /\ running
    /\ cmds[i].pc = "returned" /\ cmds[i].msg.type = "introductionMsg"
    /\ hasIntroduced' = TRUE
    /\ waitingForResponse' = FALSE
    /\ introductionReceived' = cmds[i].msg.lines
    /\ Delivered(i)
    /\ UNCHANGED <<conversation, name, said, sayResponses, textInput, err,
                   quitPending, running, responseFor>>

\* UpdateSayMsg, but without m.waitingForResponse = false.
UpdateSayMsg_staysWaiting(i) ==
    /\ running
    /\ cmds[i].pc = "returned" /\ cmds[i].msg.type = "sayMsg"
    /\ sayResponses' = Append(sayResponses, cmds[i].msg.sentence)
    /\ responseFor' = Append(responseFor, i)
    /\ Delivered(i)
    /\ UNCHANGED <<hasIntroduced, waitingForResponse, conversation, name,
                   introductionReceived, said, textInput, err, quitPending, running>>

\* UpdateSayMsg, but writing the reply over the last response instead of
\* appending it.
UpdateSayMsg_overwrite(i) ==
    /\ running
    /\ cmds[i].pc = "returned" /\ cmds[i].msg.type = "sayMsg"
    /\ waitingForResponse' = FALSE
    /\ sayResponses' = IF sayResponses = <<>> THEN <<cmds[i].msg.sentence>>
                       ELSE [sayResponses EXCEPT ![Len(sayResponses)] = cmds[i].msg.sentence]
    /\ responseFor' = Append(responseFor, i)
    /\ Delivered(i)
    /\ UNCHANGED <<hasIntroduced, conversation, name, introductionReceived, said,
                   textInput, err, quitPending, running>>

\* case sayMsg: m.waitingForResponse = false;
\* m.sayResponses = append(m.sayResponses, string(msg)); return m, nil
UpdateSayMsg(i) ==
    /\ running
    /\ cmds[i].pc = "returned" /\ cmds[i].msg.type = "sayMsg"
    /\ waitingForResponse' = FALSE
    /\ sayResponses' = Append(sayResponses, cmds[i].msg.sentence)
    /\ responseFor' = Append(responseFor, i)
    /\ Delivered(i)
    /\ UNCHANGED <<hasIntroduced, conversation, name, introductionReceived, said,
                   textInput, err, quitPending, running>>

\* ------------------------------------------------ Update: other messages
\* case spinner.TickMsg: m.spinner, cmd = m.spinner.Update(msg)
\* The spinner is an opaque widget; the session is left alone.
UpdateTickMsg ==
    /\ running
    /\ UNCHANGED vars

\* default: m.textInput, cmd = m.textInput.Update(msg).  A message that is no
\* key (window size, mouse) changes neither the value nor the placeholder.
UpdateDefault ==
    /\ running
    /\ textInput' = textInput
    /\ UNCHANGED <<sessionVars, cmds, quitPending, running, responseFor>>

\* ------------------------------------------------------------ event loop
\* The tea.Quit command's message ends p.Run(): main discards the final model
\* and the process exits, abandoning the commands still running.
QuitMsg ==
    /\ running
    /\ quitPending
    /\ running' = FALSE
    /\ hasIntroduced' = FALSE
    /\ waitingForResponse' = FALSE
    /\ conversation' = 0
    /\ name' = ""
    /\ introductionReceived' = <<>>
    /\ said' = <<>>
    /\ sayResponses' = <<>>
    /\ textInput' = [value |-> "", placeholder |-> Placeholder]
    /\ err' = NIL
    /\ cmds' = <<>>
    /\ responseFor' = <<>>
    /\ UNCHANGED quitPending

\* ------------------------------------------------------------------ View
\* The rendered string, as the sequence of the pieces written to it.
RECURSIVE Flatten(_)
Flatten(pieces) ==
    IF pieces = <<>> THEN <<>> ELSE Head(pieces) \o Flatten(Tail(pieces))

\* m.spinner.View(): the spinner's current frame.
spinnerView == <<"<spinner>">>

\* m.textInput.View(): the prompt, then the value or else the placeholder.
textInputView ==
    <<"> ", IF textInput.value = "" THEN textInput.placeholder ELSE textInput.value>>

\* func (m model) introductionView() string
introductionView ==
    <<"Let's introduce you! - what's your name?", "\n", "\n">>
      \o (IF waitingForResponse THEN spinnerView ELSE textInputView)

\* m.sayResponses[i] is read for every pair but a last one that is waited for;
\* an index beyond the slice panics.
IndexOutOfRange ==
    \E i \in 1..Len(said) :
        /\ ~(i = Len(said) /\ waitingForResponse)
        /\ i > Len(sayResponses)

\* func (m model) conversationView() string
conversationView ==
    IF IndexOutOfRange THEN <<"panic: index out of range">>
    ELSE Flatten([k \in 1..Len(introductionReceived) |->
                    <<"Eliza: ", introductionReceived[k], "\n">>])
           \o <<"\n">>
           \o Flatten([i \in 1..Len(said) |->
                    <<name, ": ", said[i], "\n", "Eliza: ">>
                      \o (IF i = Len(said) /\ waitingForResponse
                            THEN spinnerView ELSE <<sayResponses[i]>>)
                      \o <<"\n">>])
           \o (IF ~waitingForResponse THEN textInputView ELSE <<>>)

\* View, but without the check of m.err.
View_noErrCheck ==
    IF ~hasIntroduced THEN introductionView ELSE conversationView

\* func (m model) View() string
View ==
    IF err # NIL THEN <<"An error occurred: ", err>>
    ELSE IF ~hasIntroduced THEN introductionView
    ELSE conversationView

Next ==
    \/ UpdateKeyEnter
    \/ UpdateKeyQuit
    \/ UpdateKeyDefault
    \/ UpdateTickMsg
    \/ UpdateDefault
    \/ QuitMsg
    \/ \E i \in 1..Len(cmds) : IntroduceCall(i)
    \/ \E i \in 1..Len(cmds) : IntroduceReceive(i)
    \/ \E i \in 1..Len(cmds) : SayConverse(i)
    \/ \E i \in 1..Len(cmds) : SaySend(i)
    \/ \E i \in 1..Len(cmds) : SayReceive(i)
    \/ \E i \in 1..Len(cmds) : SaySleep(i)
    \/ \E i \in 1..Len(cmds) : UpdateErrMsg(i)
    \/ \E i \in 1..Len(cmds) : UpdateIntroductionMsg(i)
    \/ \E i \in 1..Len(cmds) : UpdateSayMsg(i)

Spec == Init /\ [][Next]_vars

\* The goroutine of command i takes its next step: the remote call it waits
\* for returns, or the pause ends.
Worker(i) ==
    /\ i \in 1..Len(cmds)
    /\ \/ IntroduceCall(i) \/ IntroduceReceive(i)
       \/ SayConverse(i) \/ SaySend(i) \/ SayReceive(i) \/ SaySleep(i)

\* The event loop hands the message command i returned to Update.
Deliver(i) ==
    /\ i \in 1..Len(cmds)
    /\ UpdateErrMsg(i) \/ UpdateIntroductionMsg(i) \/ UpdateSayMsg(i)

\* Every remote call returns and every returned message is delivered: a
\* command's goroutine runs to its end and p.Run() reads each message sent to it.
FairSpec ==
    Spec /\ \A i \in 1..MaxCalls : WF_vars(Worker(i)) /\ WF_vars(Deliver(i))

\* ================================================================ claims
\* The step hands command i's returned message to Update.
Delivering(i) ==
    /\ i \in 1..Len(cmds) /\ i \in 1..Len(cmds')
    /\ cmds[i].pc = "returned" /\ cmds'[i].pc = "delivered"

\* The step is Update processing an Enter key: a command is issued.
Issuing == Len(cmds') = Len(cmds) + 1

\* The commands issued whose message Update has not processed yet.
Outstanding == {i \in 1..Len(cmds) : cmds[i].pc # "delivered"}

IsPrefix(s, t) == Len(s) <= Len(t) /\ SubSeq(t, 1, Len(s)) = s

\* The say commands issued so far.
SayCmds == {i \in 1..Len(cmds) : cmds[i].kind = "say"}

\* The say commands that have called client.Converse.
ConverseCalls == {i \in SayCmds : cmds[i].conversation = i}

\* ---------------------------------------------------------------- C1
\* C1: single outstanding call: the number of commands issued never exceeds
\* the number of commands whose result Update has processed by more than one.
C1_SingleOutstandingCall == Cardinality(Outstanding) <= 1

\* ---------------------------------------------------------------- C2
\* C2: the transcript has at most one pending pair and it is the last one,
\* len(sayResponses) <= len(said) <= len(sayResponses) + 1, and len(said) is
\* the number of submits made after the introduction completed.
C2_AtMostOnePendingPair ==
    /\ Len(sayResponses) <= Len(said)
    /\ Len(said) <= Len(sayResponses) + 1
    /\ Len(said) = Cardinality(SayCmds)

\* ---------------------------------------------------------------- C3
\* C3: waitingForResponse is true if and only if a command has been issued
\* whose result message Update has not processed yet.
C3_WaitingIffOutstanding == waitingForResponse <=> (Outstanding # {})

\* ---------------------------------------------------------------- C4
\* C4: terminal phase absorption: once err is set, no event Update processes
\* changes name, said, sayResponses or introductionReceived (the process
\* ending is the only thing that still happens).
C4_FailedIsAbsorbing ==
    [][(err # NIL /\ running') =>
          /\ name' = name
          /\ said' = said
          /\ sayResponses' = sayResponses
          /\ introductionReceived' = introductionReceived]_vars

\* ---------------------------------------------------------------- C5
\* C5: no reordering: for every i <= len(sayResponses), sayResponses[i] is
\* the reply to said[i], i.e. it came from the command issued for said[i].
C5_ResponsesInOrder ==
    \A i \in 1..Len(sayResponses) : cmds[responseFor[i]].idx = i

\* ---------------------------------------------------------------- C6
\* C6: the Converse channel is opened once, by the first say command, stored
\* in the session and used by every later turn: client.Converse is called at
\* most once, and every say command that is past its nil check uses the
\* channel the session holds.
C6_ConverseOpenedOnce ==
    /\ Cardinality(ConverseCalls) <= 1
    /\ \A i \in SayCmds :
          cmds[i].pc # "converse" => cmds[i].conversation = conversation

\* ---------------------------------------------------------------- C7
\* C7: transcript monotonicity: across every Update step said and
\* sayResponses only grow by appending; no user line and no recorded response
\* is removed or changed.
C7_TranscriptMonotonic ==
    [][running' => /\ IsPrefix(said, said')
                   /\ IsPrefix(sayResponses, sayResponses')]_vars

\* Two replies have been recorded, one after the other.
C7_Witness == Len(said) >= 2 /\ Len(sayResponses) >= 2

\* ---------------------------------------------------------------- C8
\* C8: happy path.  From the initial state, Enter with the input holding a
\* name issues Introduce(name) and sets waiting; the introductionMsg(lines) of
\* that command yields hasIntroduced, not waiting and introductionReceived =
\* lines; the next Enter with the input holding a text sets waiting and makes
\* said = [text]; the sayMsg(r) of that command yields not waiting,
\* said = [text] and sayResponses = [r].
C8_NameSubmit ==
    (cmds = <<>> /\ Issuing) =>
        /\ waitingForResponse'
        /\ ~hasIntroduced'
        /\ name' = textInput.value
        /\ cmds' = <<introduce(textInput.value)>>
        /\ said' = <<>> /\ sayResponses' = <<>>

C8_Introduced ==
    (Len(cmds) = 1 /\ Delivering(1) /\ cmds[1].msg.type = "introductionMsg") =>
        /\ hasIntroduced'
        /\ ~waitingForResponse'
        /\ introductionReceived' = cmds[1].msg.lines
        /\ said' = <<>> /\ sayResponses' = <<>>

C8_LineSubmit ==
    (/\ Len(cmds) = 1 /\ cmds[1].pc = "delivered"
     /\ hasIntroduced /\ err = NIL
     /\ Issuing) =>
        /\ waitingForResponse'
        /\ said' = <<textInput.value>>
        /\ sayResponses' = <<>>
        /\ cmds'[2] = say(textInput.value)

C8_Replied ==
    (/\ Len(cmds) = 2 /\ cmds[1].pc = "delivered"
     /\ hasIntroduced /\ err = NIL
     /\ Delivering(2) /\ cmds[2].msg.type = "sayMsg") =>
        /\ ~waitingForResponse'
        /\ said' = <<cmds[2].text>>
        /\ sayResponses' = <<cmds[2].msg.sentence>>

C8_HappyPath ==
    [][C8_NameSubmit /\ C8_Introduced /\ C8_LineSubmit /\ C8_Replied]_vars

\* The happy path has run to its end: one introduction, one round trip.
C8_Witness ==
    /\ Len(cmds) = 2 /\ Outstanding = {}
    /\ hasIntroduced /\ err = NIL /\ ~waitingForResponse
    /\ Len(said) = 1 /\ Len(sayResponses) = 1

\* ---------------------------------------------------------------- C9
\* The error command i's remote call failed with (NIL if it did not fail).
Failure(i) ==
    IF cmds[i].msg.type = "errMsg" THEN cmds[i].msg.err ELSE cmds[i].streamErr

\* The view rendered after the step contains the piece.
ViewContains(piece) == \E k \in 1..Len(View') : View'[k] = piece

\* C9: introduction failure: when the Introduce call issued by the name
\* submit fails with error E, then once its result is processed err = E, the
\* view contains E's message, the transcript is empty and hasIntroduced is
\* still false.
C9_IntroductionFailure ==
    [][(/\ Len(cmds) = 1 /\ cmds[1].kind = "introduce"
        /\ Delivering(1) /\ Failure(1) # NIL) =>
          /\ err' = Failure(1)
          /\ ViewContains(Failure(1))
          /\ said' = <<>> /\ sayResponses' = <<>>
          /\ ~hasIntroduced']_vars

\* ---------------------------------------------------------------- C10
\* C10: conversational failure mid-session: when k >= 1 round trips are
\* complete and the converse turn of the next submitted line fails, err is
\* set, the first k pairs are unchanged and filled, and the failing user line
\* stays as said[k+1] with no response.
C10_FailureKeepsTranscript ==
    [][\A i \in 1..Len(cmds) :
          (/\ cmds[i].kind = "say" /\ Outstanding = {i}
           /\ Len(sayResponses) >= 1 /\ Len(said) = Len(sayResponses) + 1
           /\ cmds[i].idx = Len(said) /\ err = NIL
           /\ Delivering(i) /\ cmds[i].msg.type = "errMsg") =>
             /\ err' = cmds[i].msg.err
             /\ sayResponses' = sayResponses
             /\ said' = said
             /\ said'[cmds[i].idx] = cmds[i].text]_vars

\* A converse turn has failed after at least one complete round trip.
C10_Witness ==
    /\ err # NIL /\ hasIntroduced /\ Outstanding = {}
    /\ Len(sayResponses) >= 1 /\ Len(said) = Len(sayResponses) + 1
    /\ cmds[Len(cmds)].kind = "say"

\* The i-th command's message is an errMsg and Update processes it in this step.
DeliveringErr(i) == Delivering(i) /\ cmds[i].msg.type = "errMsg"

\* The rendered text holds the given piece.
ViewHas(piece) == \E k \in 1..Len(View) : View[k] = piece

\* C11: processing an errMsg stores the error and ends the wait: after the
\* step err is set and waitingForResponse is false.
C11_ErrMsgEndsWaiting ==
    [][\A i \in 1..Len(cmds) :
          DeliveringErr(i) => (err' # NIL /\ ~waitingForResponse')]_vars

\* C12 (as stated): an errMsg does not by itself ask the process to end: if no
\* quit was pending before Update processed it, none is pending after, and the
\* session stays failed, showing the error.
C12_ErrMsgDoesNotQuit ==
    [][\A i \in 1..Len(cmds) :
          (DeliveringErr(i) /\ ~quitPending) =>
              (err' # NIL /\ running' /\ ~quitPending')]_vars

\* C12 (amended): an errMsg stores the error and returns the quit command: the
\* session is failed and shows the error while the quit is pending, and the
\* process ends only by processing a pending quit, with or without a quit key.
C12_ErrMsgQuits ==
    [][/\ \A i \in 1..Len(cmds) :
            DeliveringErr(i) =>
                /\ err' = cmds[i].msg.err
                /\ running' /\ quitPending'
                /\ View' = <<"An error occurred: ", cmds[i].msg.err>>
       /\ (running /\ ~running') => quitPending]_vars

\* A failed session whose quit is pending and whose process still runs.
C12_Witness == err # NIL /\ running /\ quitPending /\ Len(cmds) >= 1

\* C13: a quit key, whatever the phase, returns the quit command (a quit is
\* pending after it) and leaves every session field unchanged; it issues no
\* remote call and the process runs until the quit is processed.
C13_QuitKeepsSession ==
    [][UpdateKeyQuit =>
          (quitPending' /\ running' /\ UNCHANGED sessionVars /\ cmds' = cmds)]_vars

\* A quit pending in the middle of a conversation, while a reply is awaited.
C13_Witness ==
    /\ running /\ quitPending /\ err = NIL
    /\ hasIntroduced /\ waitingForResponse /\ Len(said) >= 1

\* C14: introduce never exposes a partial sequence: when the stream ended with
\* an error, the command resolves with an errMsg, not an introductionMsg.
C14_NoPartialIntroduction ==
    \A i \in 1..Len(cmds) :
        (cmds[i].kind = "introduce" /\ cmds[i].pc = "returned"
            /\ cmds[i].streamErr # NIL) => cmds[i].msg.type = "errMsg"

\* C15 (as stated): name is empty exactly when the session has not been
\* introduced and has not failed.
C15_NameEmptyIffNotIntroduced ==
    (name = "") <=> (~hasIntroduced /\ err = NIL)

\* C15 (amended): name is empty until the name is submitted; the submit stores
\* the submitted text (which may be empty) at once, before the introduction
\* arrives, and nothing else changes it while the process runs.
C15_NameSetAtSubmit ==
    /\ name = ""
    /\ [][IF Issuing /\ ~hasIntroduced
            THEN name' = textInput.value
            ELSE running' => name' = name]_vars

\* The introduction is still awaited and the name is already stored.
C15_Witness ==
    /\ running /\ ~hasIntroduced /\ err = NIL /\ waitingForResponse
    /\ name = "a" /\ Outstanding # {}

\* C16: once the introduction has been received, no later event changes
\* introductionReceived or name.
C16_IntroductionFrozen ==
    [][(hasIntroduced /\ running') =>
          (introductionReceived' = introductionReceived /\ name' = name)]_vars

\* C17: whenever err is set, the view is the error text only, whatever the
\* other fields hold: no prompt, transcript, spinner or input widget.
C17_ErrorViewOnly ==
    err # NIL => View = <<"An error occurred: ", err>>

\* A failed session that has a transcript and still waits for a reply.
C17_Witness ==
    err # NIL /\ hasIntroduced /\ Len(said) >= 1 /\ waitingForResponse

\* C18: without an error the view shows exactly one of the spinner and the input
\* widget: the spinner while waiting (in a conversation, in the place of the
\* last pair's response), the input widget otherwise.
C18_SpinnerXorInput ==
    (err = NIL) =>
        /\ ViewHas("<spinner>") <=> waitingForResponse
        /\ ViewHas("> ") <=> ~waitingForResponse
        /\ (waitingForResponse /\ hasIntroduced) =>
              /\ Len(View) >= 2
              /\ View[Len(View) - 1] = "<spinner>"

\* C19: any other event (another key, a tick, a resize, a mouse event) changes
\* only the widgets: the session fields stay as they are, no command is issued
\* and no quit is asked for.
C19_OtherEventsKeepSession ==
    [][(UpdateKeyDefault \/ UpdateTickMsg \/ UpdateDefault) =>
          (UNCHANGED sessionVars /\ cmds' = cmds /\ quitPending' = quitPending)]_vars

\* Text typed into the widget while a reply is awaited.
C19_Witness ==
    /\ running /\ waitingForResponse /\ hasIntroduced /\ err = NIL
    /\ textInput.value = "a" /\ Outstanding # {}

\* C20: before anything is submitted the session is as constructed: not
\* introduced, not waiting, no error, empty name, introduction and transcript,
\* and no conversation open.
C20_InitialState ==
    (cmds = <<>>) =>
        /\ ~hasIntroduced /\ ~waitingForResponse /\ err = NIL
        /\ name = "" /\ introductionReceived = <<>>
        /\ said = <<>> /\ sayResponses = <<>>
        /\ conversation = 0
        /\ textInput.placeholder = Placeholder

\* The state right after construction.
C20_Witness ==
    /\ running /\ ~quitPending /\ cmds = <<>>
    /\ textInput = [value |-> "", placeholder |-> Placeholder]

\* The say commands whose goroutine is at a Send or a Receive on its channel.
UsingHandle ==
    {i \in 1..Len(cmds) : cmds[i].kind = "say" /\ cmds[i].pc \in {"send", "receive"}}

\* C21: a say command returns sayMsg only after its pause, and pauses only
\* after the reply was received; an introduce command never pauses.
C21_PauseBeforeReply ==
    \A i \in 1..Len(cmds) :
        /\ cmds[i].msg.type = "sayMsg" =>
              (cmds[i].kind = "say" /\ cmds[i].slept /\ cmds[i].lines # <<>>)
        /\ cmds[i].pc = "sleep" => (cmds[i].kind = "say" /\ cmds[i].lines # <<>>)
        /\ cmds[i].kind = "introduce" => (~cmds[i].slept /\ cmds[i].pc # "sleep")

\* A say command that has paused and holds its sayMsg, not yet delivered.
C21_Witness ==
    \E i \in 1..Len(cmds) :
        /\ cmds[i].kind = "say" /\ cmds[i].pc = "returned"
        /\ cmds[i].msg.type = "sayMsg" /\ cmds[i].slept

\* C22: no two commands are at a Send or Receive on the same channel at the
\* same time, and the handle field of the program's own model is never
\* assigned (Update does not touch the channel).
C22_NoConcurrentHandleUse ==
    /\ \A i, j \in UsingHandle :
          i # j => cmds[i].conversation # cmds[j].conversation
    /\ \A i \in UsingHandle : cmds[i].conversation # 0
    /\ conversation = 0

\* Two say commands are at a Send or a Receive at the same time.
C22_Witness == Cardinality(UsingHandle) >= 2

\* C23: the step that issues a command (an accepted Enter) clears the input and
\* sets waitingForResponse; before the introduction it stores the text as name
\* and issues introduce(text), leaving said alone; after it, it appends the text
\* to said and issues say(text), leaving name and introductionReceived alone.
C23_SubmitDispatch ==
    [][Issuing =>
          LET text == textInput.value
              c    == cmds'[Len(cmds')]
          IN  /\ textInput'.value = ""
              /\ waitingForResponse'
              /\ c.text = text
              /\ c.pc \in {"call", "converse"}
              /\ \A k \in 1..Len(cmds) : cmds'[k] = cmds[k]
              /\ UNCHANGED <<hasIntroduced, introductionReceived, sayResponses, err>>
              /\ IF ~hasIntroduced
                   THEN c.kind = "introduce" /\ name' = text /\ said' = said
                   ELSE /\ c.kind = "say"
                        /\ said' = Append(said, text)
                        /\ c.idx = Len(said')
                        /\ name' = name]_vars

\* A line was just submitted: it is the last of said and the say command that
\* carries it has not started.
C23_Witness ==
    /\ hasIntroduced /\ waitingForResponse /\ Len(said) >= 1 /\ Len(cmds) >= 2
    /\ textInput.value = ""
    /\ LET c == cmds[Len(cmds)]
       IN  c.kind = "say" /\ c.pc = "converse" /\ c.text = "a"
             /\ said[Len(said)] = "a"

\* C24: when Update processes errMsg(e), in whatever state, err is e after the
\* step and a command (the quit) has been returned.
C24_ErrMsgStoredWithCommand ==
    [][\A i \in 1..Len(cmds) :
          DeliveringErr(i) => (err' = cmds[i].msg.err /\ quitPending')]_vars

\* An errMsg of a say command was processed after the introduction.
C24_Witness ==
    /\ err \in Errs /\ quitPending /\ hasIntroduced
    /\ \E i \in 1..Len(cmds) : cmds[i].kind = "say" /\ cmds[i].pc = "delivered"

\* C25: a command holds a message only once it has returned, and then exactly
\* one: introductionMsg or errMsg for introduce, sayMsg or errMsg for say, a
\* sayMsg only with the reply that was received (a failed Send or Receive gives
\* errMsg); the message is handed to Update once and never again.
C25_OneResultPerCommand ==
    [][\A i \in 1..Len(cmds) :
          i \in 1..Len(cmds') =>
            /\ cmds[i].pc = "delivered" => cmds'[i].pc = "delivered"
            /\ cmds'[i].pc # "returned" => cmds'[i].msg = NoMsg
            /\ cmds'[i].pc = "returned" =>
                  /\ cmds'[i].msg.type \in
                        (IF cmds'[i].kind = "introduce"
                           THEN {"introductionMsg", "errMsg"}
                           ELSE {"sayMsg", "errMsg"})
                  /\ cmds'[i].msg.type = "sayMsg" =>
                        /\ cmds'[i].lines # <<>>
                        /\ cmds'[i].msg.sentence = cmds'[i].lines[1]
                  /\ cmds'[i].msg.type = "errMsg" => cmds'[i].msg.err \in Errs
            /\ (cmds[i].pc = "returned" /\ cmds'[i].pc # "returned") => Delivering(i)]_vars

\* One say command failed at Send or Receive and holds its errMsg while another
\* command has already had its result processed.
C25_Witness ==
    \E i, j \in 1..Len(cmds) :
        /\ cmds[i].kind = "say" /\ cmds[i].pc = "returned"
        /\ cmds[i].msg.type = "errMsg"
        /\ cmds[j].pc = "delivered"

\* C26: in a conversation without error, every line of said but a last one that
\* is waited for has its response, so conversationView reads no missing
\* response.
C26_ViewIndexInRange ==
    (err = NIL /\ hasIntroduced) =>
        \A i \in 1..Len(said) :
            (i = Len(said) /\ waitingForResponse) \/ i <= Len(sayResponses)

\* The result of command i is in the session: the introduction for an introduce
\* command, a response for a say command.
Recorded(i) ==
    IF cmds[i].kind = "introduce" THEN hasIntroduced
    ELSE \E k \in 1..Len(responseFor) : responseFor[k] = i

\* Command i was processed and the session is at rest with its result, or the
\* session failed, or the process ended.
Settled(i) ==
    \/ ~running
    \/ err # NIL
    \/ /\ i \in 1..Len(cmds)
       /\ cmds[i].pc = "delivered" /\ ~waitingForResponse /\ Recorded(i)

====
